---------------------------- MODULE Spec2Model ----------------------------
(***************************************************************************)
(* A model of scripts/build_pubs.py: the conversion of a BibTeX            *)
(* bibliography into the sorted publications.json.                         *)
(*                                                                         *)
(* A Python str is a sequence of one-character strings; the code point     *)
(* U+00A0 is written "NBSP".  None is the value PyNone.  An entry (a dict) *)
(* is a function from the field names it holds to their raw text.          *)
(***************************************************************************)
EXTENDS Integers, Sequences, FiniteSets, TLC

VARIABLES
    pc,             \* position in main, or in the function under call
    dataDirExists,  \* ROOT/data exists (it holds both BIB and OUT)
    bibExists,      \* BIB.exists()
    bibEntries,     \* the entries bibtexparser yields for the file BIB
    outFile,        \* the file OUT: Absent, or FileOf the list last written
    db,             \* db.entries
    i,              \* index of the next entry of the for loop (1-based)
    pubs,           \* the list pubs
    raised,         \* the exception main raised, or NoError
    printed,        \* what main printed: the number of items, or -1
    arg,            \* the argument of the function under call
    res             \* its result, or Pending

mainVars == <<dataDirExists, bibExists, bibEntries, outFile, db, i, pubs, raised, printed>>
callVars == <<arg, res>>
vars == <<pc, dataDirExists, bibExists, bibEntries, outFile, db, i, pubs, raised,
          printed, arg, res>>

(***************************************************************************)
(* Bounds of the model.                                                    *)
(***************************************************************************)
MaxYearLen == 6
MaxAuthorLen == 6
MaxAuthors == 3
MaxEntries == 3

(***************************************************************************)
(* Characters.                                                             *)
(***************************************************************************)
NBSP == "NBSP"
PyNone == <<"None">>
Pending == <<"Pending">>

UpperSeq == <<"A","B","C","D","E","F","G","H","I","J","K","L","M",
              "N","O","P","Q","R","S","T","U","V","W","X","Y","Z">>
LowerSeq == <<"a","b","c","d","e","f","g","h","i","j","k","l","m",
              "n","o","p","q","r","s","t","u","v","w","x","y","z">>
DigitSeq == <<"0","1","2","3","4","5","6","7","8","9">>
PunctSeq == <<" ", "+", ",", "-", ".", "/", ":", "_", "{", "}">>
PunctCode == <<32, 43, 44, 45, 46, 47, 58, 95, 123, 125>>

Range(f) == {f[k] : k \in DOMAIN f}
IndexOf(seq, c) == CHOOSE k \in DOMAIN seq : seq[k] = c

IsUpper(c) == c \in Range(UpperSeq)
IsLower(c) == c \in Range(LowerSeq)
IsDigit(c) == c \in Range(DigitSeq)
\* str.isspace(), and \s of re for a str pattern: both hold of U+00A0
IsSpace(c) == c \in {" ", "\t", "\n", "\r", NBSP}
\* \w of re: alphanumeric or underscore
IsWord(c) == IsUpper(c) \/ IsLower(c) \/ IsDigit(c) \/ c = "_"

DigitVal(c) == IndexOf(DigitSeq, c) - 1

\* ord(c), for the characters the model compares
CodePoint(c) ==
    IF IsUpper(c) THEN 64 + IndexOf(UpperSeq, c)
    ELSE IF IsLower(c) THEN 96 + IndexOf(LowerSeq, c)
    ELSE IF IsDigit(c) THEN 48 + DigitVal(c)
    ELSE IF c = "\t" THEN 9
    ELSE IF c = "\n" THEN 10
    ELSE IF c = "\r" THEN 13
    ELSE IF c = NBSP THEN 160
    ELSE PunctCode[IndexOf(PunctSeq, c)]

\* str.lower() on one character
LowerChar(c) == IF IsUpper(c) THEN LowerSeq[IndexOf(UpperSeq, c)] ELSE c
lower(s) == [k \in 1..Len(s) |-> LowerChar(s[k])]

\* truth value of a str or None
Truthy(v) == v # PyNone /\ v # <<>>

\* a < b for str: lexicographic by code point
RECURSIVE StrLess(_, _)
StrLess(a, b) ==
    IF b = <<>> THEN FALSE
    ELSE IF a = <<>> THEN TRUE
    ELSE IF Head(a) = Head(b) THEN StrLess(Tail(a), Tail(b))
    ELSE CodePoint(Head(a)) < CodePoint(Head(b))

\* needle in hay
Contains(hay, needle) ==
    \E k \in 0..(Len(hay) - Len(needle)) :
        SubSeq(hay, k + 1, k + Len(needle)) = needle

\* all sequences over S of length at most n
StringsUpTo(S, n) == UNION {[1..k -> S] : k \in 0..n}

(***************************************************************************)
(* clean_text                                                              *)
(***************************************************************************)
\* s.replace(U+00A0, " ")
ReplaceNBSP(s) == [k \in 1..Len(s) |-> IF s[k] = NBSP THEN " " ELSE s[k]]

\* re.sub(r"[{}]", "", s)
RECURSIVE RemoveBraces(_)
RemoveBraces(s) ==
    IF s = <<>> THEN <<>>
    ELSE IF Head(s) \in {"{", "}"} THEN RemoveBraces(Tail(s))
    ELSE <<Head(s)>> \o RemoveBraces(Tail(s))

\* s.split(): the maximal runs of non-whitespace, in order
RECURSIVE SplitFrom(_, _, _)
SplitFrom(s, cur, acc) ==
    IF s = <<>> THEN (IF cur = <<>> THEN acc ELSE Append(acc, cur))
    ELSE IF IsSpace(Head(s))
         THEN SplitFrom(Tail(s), <<>>, IF cur = <<>> THEN acc ELSE Append(acc, cur))
         ELSE SplitFrom(Tail(s), Append(cur, Head(s)), acc)
PySplit(s) == SplitFrom(s, <<>>, <<>>)

\* " ".join(words)
RECURSIVE JoinSpace(_)
JoinSpace(words) ==
    IF words = <<>> THEN <<>>
    ELSE IF Len(words) = 1 THEN Head(words)
    ELSE Head(words) \o <<" ">> \o JoinSpace(Tail(words))

\* s.lstrip(), s.rstrip(), s.strip()
RECURSIVE LStrip(_)
LStrip(s) == IF s # <<>> /\ IsSpace(Head(s)) THEN LStrip(Tail(s)) ELSE s
RECURSIVE RStrip(_)
RStrip(s) ==
    IF s # <<>> /\ IsSpace(s[Len(s)]) THEN RStrip(SubSeq(s, 1, Len(s) - 1)) ELSE s
Strip(s) == RStrip(LStrip(s))

\* s.rstrip(",")
RECURSIVE RStripComma(_)
RStripComma(s) ==
    IF s # <<>> /\ s[Len(s)] = "," THEN RStripComma(SubSeq(s, 1, Len(s) - 1)) ELSE s

clean_text(s) ==
    IF ~Truthy(s) THEN <<>>
    ELSE Strip(JoinSpace(PySplit(RemoveBraces(ReplaceNBSP(s)))))

(***************************************************************************)
(* to_int_year                                                             *)
(***************************************************************************)
\* the value of a run of decimal digits
RECURSIVE DigitsToInt(_)
DigitsToInt(s) ==
    IF s = <<>> THEN 0
    ELSE 10 * DigitsToInt(SubSeq(s, 1, Len(s) - 1)) + DigitVal(s[Len(s)])

\* \b at the gap before s[k] (k in 1..Len(s)+1)
WordBoundary(s, k) ==
    LET before == k > 1 /\ IsWord(s[k - 1])
        after  == k <= Len(s) /\ IsWord(s[k])
    IN  before # after

\* the start positions at which \b(\d{4})\b matches
YearMatches(s) ==
    {k \in 1..(Len(s) - 3) :
        /\ \A j \in k..(k + 3) : IsDigit(s[j])
        /\ WordBoundary(s, k)
        /\ WordBoundary(s, k + 4)}

\* int(s) of a str: [ok |-> FALSE] stands for ValueError
\* (surrounding whitespace, a sign, digits with single underscores between them)
PyInt(s) ==
    LET t      == Strip(s)
        signed == t # <<>> /\ t[1] \in {"+", "-"}
        body   == IF signed THEN Tail(t) ELSE t
        valid  == /\ body # <<>>
                  /\ \A k \in 1..Len(body) : IsDigit(body[k]) \/ body[k] = "_"
                  /\ IsDigit(body[1]) /\ IsDigit(body[Len(body)])
                  /\ \A k \in 1..(Len(body) - 1) : ~(body[k] = "_" /\ body[k + 1] = "_")
        digits == SelectSeq(body, IsDigit)
    IN  IF ~valid THEN [ok |-> FALSE, val |-> 0]
        ELSE [ok |-> TRUE,
              val |-> IF signed /\ t[1] = "-" THEN 0 - DigitsToInt(digits)
                      ELSE DigitsToInt(digits)]

to_int_year(year_raw) ==
    LET s == clean_text(year_raw)
        m == YearMatches(s)
    IN  IF ~Truthy(s) THEN 0
        ELSE IF m # {}
             THEN LET k == CHOOSE k \in m : \A j \in m : k <= j
                  IN  DigitsToInt(SubSeq(s, k, k + 3))
        ELSE IF PyInt(s).ok THEN PyInt(s).val
        ELSE 0

(***************************************************************************)
(* split_authors                                                           *)
(***************************************************************************)
\* the last index of the run of whitespace that starts at k
WsRunEnd(s, k) ==
    CHOOSE j \in k..Len(s) :
        /\ \A t \in k..j : IsSpace(s[t])
        /\ j = Len(s) \/ ~IsSpace(s[j + 1])

\* the last index of the match of \s+and\s+ that starts at k, or 0 when the
\* pattern does not match there
SepMatchEnd(s, k) ==
    IF k > Len(s) \/ ~IsSpace(s[k]) THEN 0
    ELSE LET e == WsRunEnd(s, k)
         IN  IF /\ e + 4 <= Len(s)
                /\ SubSeq(s, e + 1, e + 3) = <<"a", "n", "d">>
                /\ IsSpace(s[e + 4])
             THEN WsRunEnd(s, e + 4)
             ELSE 0

\* re.split(r"\s+and\s+", s): the text between the leftmost, non-overlapping
\* matches; start is where the current piece began, k the scan position
RECURSIVE ReSplitFrom(_, _, _)
ReSplitFrom(s, start, k) ==
    IF k > Len(s) THEN <<SubSeq(s, start, Len(s))>>
    ELSE IF SepMatchEnd(s, k) > 0
         THEN <<SubSeq(s, start, k - 1)>>
              \o ReSplitFrom(s, SepMatchEnd(s, k) + 1, SepMatchEnd(s, k) + 1)
         ELSE ReSplitFrom(s, start, k + 1)
ReSplitAnd(s) == ReSplitFrom(s, 1, 1)

\* the filter of the comprehension: if p.strip()
KeepPiece(p) == Truthy(Strip(p))
\* its element: p.strip().rstrip(",")
PieceName(p) == RStripComma(Strip(p))

AuthorParts(pieces) ==
    LET kept == SelectSeq(pieces, KeepPiece)
    IN  [k \in 1..Len(kept) |-> PieceName(kept[k])]

\* a < b or a = b, for the sort below
StrLeq(a, b) == a = b \/ StrLess(a, b)
RECURSIVE InsertName(_, _)
InsertName(sorted, x) ==
    IF sorted = <<>> THEN <<x>>
    ELSE IF StrLeq(x, Head(sorted)) THEN <<x>> \o sorted
    ELSE <<Head(sorted)>> \o InsertName(Tail(sorted), x)
RECURSIVE SortNames(_)
SortNames(names) ==
    IF names = <<>> THEN <<>> ELSE InsertName(SortNames(Tail(names)), Head(names))

\* split_authors, were it to return sorted(parts)
split_authors_sorted(author_field) ==
    LET s == clean_text(author_field)
    IN  IF ~Truthy(s) THEN <<>> ELSE SortNames(AuthorParts(ReSplitAnd(s)))

split_authors(author_field) ==
    LET s == clean_text(author_field)
    IN  IF ~Truthy(s) THEN <<>> ELSE AuthorParts(ReSplitAnd(s))

(***************************************************************************)
(* make_arxiv_link, pick_venue                                             *)
(***************************************************************************)
\* entry.get(key, default) and entry.get(key)
Get(entry, key, default) == IF key \in DOMAIN entry THEN entry[key] ELSE default
GetOrNone(entry, key) == Get(entry, key, PyNone)

\* a or b
PyOr(a, b) == IF Truthy(a) THEN a ELSE b

ArxivWord == <<"a", "r", "x", "i", "v">>
\* "https://arxiv.org/abs/"
ArxivAbs == <<"h","t","t","p","s",":","/","/","a","r","x","i","v",".","o","r","g",
              "/","a","b","s","/">>

make_arxiv_link(entry) ==
    LET arxiv   == clean_text(Get(entry, "arxiv", <<>>))
        eprint  == clean_text(Get(entry, "eprint", <<>>))
        archive == lower(clean_text(Get(entry, "archivePrefix",
                                        Get(entry, "archiveprefix", <<>>))))
        note    == lower(clean_text(Get(entry, "note", <<>>)))
    IN  IF Truthy(arxiv) THEN ArxivAbs \o arxiv
        ELSE IF Truthy(eprint) /\ archive = ArxivWord THEN ArxivAbs \o eprint
        ELSE IF Truthy(eprint) /\ Contains(note, ArxivWord) THEN ArxivAbs \o eprint
        ELSE <<>>

pick_venue(entry) ==
    clean_text(PyOr(GetOrNone(entry, "journal"),
               PyOr(GetOrNone(entry, "booktitle"),
               PyOr(GetOrNone(entry, "publisher"),
               PyOr(GetOrNone(entry, "institution"), <<>>)))))

(***************************************************************************)
(* Calls of the pure functions on bounded inputs.  The variables of main   *)
(* stay at rest during a call.                                             *)
(***************************************************************************)
\* OUT when no file is there, and when it holds the list content
Absent == [exists |-> FALSE, content |-> <<>>]
FileOf(content) == [exists |-> TRUE, content |-> content]
NoError == "NoError"

MainAtRest ==
    /\ dataDirExists = FALSE /\ bibExists = FALSE /\ bibEntries = <<>>
    /\ outFile = Absent /\ db = <<>> /\ i = 1 /\ pubs = <<>>
    /\ raised = NoError /\ printed = -1

\* the entries whose fields, those of the domain of choices that are present,
\* take one of the values listed for them
EntriesOver(choices) ==
    UNION {[F -> UNION {choices[f] : f \in F}] : F \in SUBSET DOMAIN choices}

EntriesFrom(choices) ==
    {e \in EntriesOver(choices) : \A f \in DOMAIN e : e[f] \in choices[f]}

\* ---- to_int_year ----
YearAlphabet == {"2", "a", "-", " ", "{"}
YearExamples ==
    {<<"2","0","2","5">>, <<"{","2","0","2","5","}">>, <<"2","0","2","5","a">>,
     <<"n",".","d",".">>, <<"2","0","2","4",NBSP>>, <<"1","_","0">>}
YearTexts == StringsUpTo(YearAlphabet, MaxYearLen) \cup YearExamples

InitYear == pc = "call_to_int_year" /\ arg \in YearTexts /\ res = Pending /\ MainAtRest
CallToIntYear ==
    /\ pc = "call_to_int_year"
    /\ res' = to_int_year(arg)
    /\ pc' = "returned_to_int_year"
    /\ UNCHANGED <<arg, mainVars>>
SpecYear == InitYear /\ [][CallToIntYear]_vars

\* ---- make_arxiv_link ----
ArXivText == <<"a", "r", "X", "i", "v">>
ArxivChoices ==
    [arxiv         |-> {<<>>, <<"{", "}">>, <<"{", "1", "}">>},
     eprint        |-> {<<>>, <<"2">>},
     archivePrefix |-> {<<>>, ArXivText, <<"x">>},
     archiveprefix |-> {<<>>, ArXivText, <<"x">>},
     note          |-> {<<"x">>, <<"o", "n", " ", "A", "r", "x", "i", "v">>,
                        <<"a", "r", "{", "X", "}", "i", "v">>}]
ArxivEntries == EntriesFrom(ArxivChoices)

InitArxiv == pc = "call_make_arxiv_link" /\ arg \in ArxivEntries /\ res = Pending /\ MainAtRest
CallMakeArxivLink ==
    /\ pc = "call_make_arxiv_link"
    /\ res' = make_arxiv_link(arg)
    /\ pc' = "returned_make_arxiv_link"
    /\ UNCHANGED <<arg, mainVars>>
SpecArxiv == InitArxiv /\ [][CallMakeArxivLink]_vars

\* ---- pick_venue ----
VenueChoices ==
    [journal     |-> {<<>>, <<"{", "}">>, <<" ">>, <<"{", "J", "}">>},
     booktitle   |-> {<<>>, <<"{", "}">>, <<" ">>, <<"B">>},
     publisher   |-> {<<>>, <<"{", "}">>, <<" ">>, <<"P">>},
     institution |-> {<<>>, <<"{", "}">>, <<" ">>, <<"I">>}]
VenueEntries == EntriesFrom(VenueChoices)

InitVenue == pc = "call_pick_venue" /\ arg \in VenueEntries /\ res = Pending /\ MainAtRest
CallPickVenue ==
    /\ pc = "call_pick_venue"
    /\ res' = pick_venue(arg)
    /\ pc' = "returned_pick_venue"
    /\ UNCHANGED <<arg, mainVars>>
SpecVenue == InitVenue /\ [][CallPickVenue]_vars

\* ---- split_authors on raw author text ----
AuthorAlphabet == {"K", "a", "n", "d", " ", ","}
AuthorExamples ==
    {<<"K", " ", "a", "n", "d", " ", ",", " ", "a", "n", "d", " ", "L">>,
     <<"K", ",", " ", "J", "\n", "a", "n", "d", " ", "S", ",", " ", "C">>,
     <<"A", " ", "a", "n", "d", " ", "a", "n", "d", " ", "a", "n", "d", " ", "B">>}
AuthorTexts == StringsUpTo(AuthorAlphabet, MaxAuthorLen) \cup AuthorExamples

InitAuthors == pc = "call_split_authors" /\ arg \in AuthorTexts /\ res = Pending /\ MainAtRest
CallSplitAuthors ==
    /\ pc = "call_split_authors"
    /\ res' = split_authors(arg)
    /\ pc' = "returned_split_authors"
    /\ UNCHANGED <<arg, mainVars>>
SpecAuthors == InitAuthors /\ [][CallSplitAuthors]_vars

\* ---- split_authors on a list of names joined by "and" ----
\* arg is [names, gaps]: gaps[k] is the whitespace before and after the
\* k-th "and"
NameSet == {<<"K", ",", " ", "J">>, <<"a", "n", "d", "y">>, <<"{", "P", "}">>}
GapRuns == {<<" ">>, <<"\n">>, <<NBSP, "\t">>}
GapSet == [before : GapRuns, after : GapRuns]
OneSpace == [before |-> <<" ">>, after |-> <<" ">>]

RECURSIVE JoinAnd(_, _)
JoinAnd(names, gaps) ==
    IF names = <<>> THEN <<>>
    ELSE IF Len(names) = 1 THEN names[1]
    ELSE names[1] \o gaps[1].before \o <<"a", "n", "d">> \o gaps[1].after
         \o JoinAnd(Tail(names), Tail(gaps))

AuthorLists ==
    UNION {[names : [1..n -> NameSet],
            gaps  : [1..(IF n = 0 THEN 0 ELSE n - 1) -> GapSet]] : n \in 0..MaxAuthors}

InitAuthorList ==
    pc = "call_split_authors_joined" /\ arg \in AuthorLists /\ res = Pending /\ MainAtRest
CallSplitAuthorsJoined ==
    /\ pc = "call_split_authors_joined"
    /\ res' = split_authors(JoinAnd(arg.names, arg.gaps))
    /\ pc' = "returned_split_authors_joined"
    /\ UNCHANGED <<arg, mainVars>>
SpecAuthorList == InitAuthorList /\ [][CallSplitAuthorsJoined]_vars

(***************************************************************************)
(* main                                                                    *)
(***************************************************************************)
\* the dict main appends for the entry e
EntryRecord(e) ==
    [id      |-> Get(e, "ID", <<>>),
     type    |-> Get(e, "ENTRYTYPE", <<>>),
     title   |-> clean_text(Get(e, "title", <<>>)),
     authors |-> split_authors(Get(e, "author", <<>>)),
     venue   |-> pick_venue(e),
     year    |-> to_int_year(Get(e, "year", <<>>)),
     url     |-> clean_text(Get(e, "url", <<>>)),
     doi     |-> clean_text(Get(e, "doi", <<>>)),
     arxiv   |-> make_arxiv_link(e),
     pdf     |-> clean_text(Get(e, "pdf", <<>>)),
     code    |-> clean_text(Get(e, "code", <<>>))]

\* (a["year"], a["title"]) < (b["year"], b["title"])
KeyLess(a, b) ==
    \/ a.year < b.year
    \/ a.year = b.year /\ StrLess(a.title, b.title)

\* x put before the first element of sorted whose key is less than its own
RECURSIVE InsertDesc(_, _)
InsertDesc(sorted, x) ==
    IF sorted = <<>> THEN <<x>>
    ELSE IF KeyLess(Head(sorted), x) THEN <<x>> \o sorted
    ELSE <<Head(sorted)>> \o InsertDesc(Tail(sorted), x)

RECURSIVE SortDescFrom(_, _)
SortDescFrom(list, acc) ==
    IF list = <<>> THEN acc
    ELSE SortDescFrom(Tail(list), InsertDesc(acc, Head(list)))

\* the sort, were its key x["year"] alone
RECURSIVE InsertDescByYear(_, _)
InsertDescByYear(sorted, x) ==
    IF sorted = <<>> THEN <<x>>
    ELSE IF Head(sorted).year < x.year THEN <<x>> \o sorted
    ELSE <<Head(sorted)>> \o InsertDescByYear(Tail(sorted), x)
RECURSIVE SortByYearFrom(_, _)
SortByYearFrom(list, acc) ==
    IF list = <<>> THEN acc
    ELSE SortByYearFrom(Tail(list), InsertDescByYear(acc, Head(list)))
SortPubsByYear(list) == SortByYearFrom(list, <<>>)

\* pubs.sort(key=lambda x: (x["year"], x["title"]), reverse=True): descending
\* by key, records of equal key in their order of insertion
SortPubs(list) == SortDescFrom(list, <<>>)

\* the entries of the bibliographies the model reads
SampleEntries ==
    {("ID" :> <<"e", "1">>) @@ ("ENTRYTYPE" :> <<"a">>) @@ ("title" :> <<"{", "B", "}">>)
        @@ ("author" :> <<"K", ",", " ", "J", "\n", "a", "n", "d", " ", "S">>)
        @@ ("year" :> <<"{", "2", "0", "2", "5", "}">>) @@ ("journal" :> <<"J">>)
        @@ ("doi" :> <<"d">>) @@ ("url" :> <<"u">>) @@ ("pdf" :> <<"p">>)
        @@ ("code" :> <<"c">>) @@ ("eprint" :> <<"2">>) @@ ("archiveprefix" :> ArXivText),
     ("ID" :> <<"e", "2">>) @@ ("title" :> <<"A">>) @@ ("author" :> <<"S">>),
     ("ID" :> <<"e", "3">>) @@ ("title" :> <<"A">>) @@ ("year" :> <<"2", "0", "2", "4">>),
     ("ID" :> <<"e", "4">>) @@ ("title" :> <<"B">>) @@ ("author" :> <<"K">>)
        @@ ("year" :> <<"-", "5">>),
     ("ID" :> <<"e", "5">>) @@ ("title" :> <<"A", " ", "B">>) @@ ("author" :> <<"K">>)
        @@ ("year" :> <<"n", ".", "d", ".">>),
     ("ID" :> <<"e", "6">>) @@ ("title" :> <<"A">>) @@ ("author" :> <<"S", " ", "a", "n", "d", " ", "K">>)
        @@ ("year" :> <<"2", "0", "2", "5">>),
     ("ID" :> <<"e", "7">>) @@ ("title" :> <<"B">>) @@ ("author" :> <<"K">>)
        @@ ("year" :> <<"2", "0", "2", "4">>) @@ ("booktitle" :> <<"B">>),
     ("ID" :> <<"e", "8">>)}

Bibliographies == UNION {[1..n -> SampleEntries] : n \in 0..MaxEntries}

\* an output file left by an earlier run
StaleOut == FileOf(<<EntryRecord(("ID" :> <<"o", "l", "d">>) @@ ("year" :> <<"1", "9", "9", "9">>))>>)

Init ==
    /\ pc = "start"
    /\ bibExists \in BOOLEAN
    /\ dataDirExists \in BOOLEAN
    /\ bibExists => dataDirExists
    /\ bibEntries \in (IF bibExists THEN Bibliographies ELSE {<<>>})
    /\ outFile \in (IF dataDirExists THEN {Absent, StaleOut} ELSE {Absent})
    /\ db = <<>> /\ i = 1 /\ pubs = <<>>
    /\ raised = NoError /\ printed = -1
    /\ arg = <<>> /\ res = Pending

\* main, were the output directory made before the check of BIB
CheckExistsAfterMkdir ==
    /\ pc = "start"
    /\ dataDirExists' = TRUE
    /\ IF ~bibExists
       THEN raised' = "FileNotFoundError" /\ pc' = "failed"
       ELSE raised' = raised /\ pc' = "load"
    /\ UNCHANGED <<bibExists, bibEntries, outFile, db, i, pubs, printed, callVars>>

\* if not BIB.exists(): raise FileNotFoundError
CheckExists ==
    /\ pc = "start"
    /\ IF ~bibExists
       THEN raised' = "FileNotFoundError" /\ pc' = "failed"
       ELSE raised' = raised /\ pc' = "load"
    /\ UNCHANGED <<dataDirExists, bibExists, bibEntries, outFile, db, i, pubs, printed, callVars>>

\* db = bibtexparser.load(f); pubs = []
Load ==
    /\ pc = "load"
    /\ db' = bibEntries
    /\ pubs' = <<>>
    /\ i' = 1
    /\ pc' = "loop"
    /\ UNCHANGED <<dataDirExists, bibExists, bibEntries, outFile, raised, printed, callVars>>

\* the loop, were it to skip an entry that has no year
TransformSkipNoYear ==
    /\ pc = "loop"
    /\ i <= Len(db)
    /\ pubs' = IF "year" \in DOMAIN db[i] THEN Append(pubs, EntryRecord(db[i])) ELSE pubs
    /\ i' = i + 1
    /\ UNCHANGED <<pc, dataDirExists, bibExists, bibEntries, outFile, db, raised, printed, callVars>>

\* one iteration of the for loop
Transform ==
    /\ pc = "loop"
    /\ i <= Len(db)
    /\ pubs' = Append(pubs, EntryRecord(db[i]))
    /\ i' = i + 1
    /\ UNCHANGED <<pc, dataDirExists, bibExists, bibEntries, outFile, db, raised, printed, callVars>>

\* the loop is over: pubs.sort(...)
Sort ==
    /\ pc = "loop"
    /\ i > Len(db)
    /\ pubs' = SortPubs(pubs)
    /\ pc' = "mkdir"
    /\ UNCHANGED <<dataDirExists, bibExists, bibEntries, outFile, db, i, raised, printed, callVars>>

\* OUT.parent.mkdir(parents=True, exist_ok=True)
Mkdir ==
    /\ pc = "mkdir"
    /\ dataDirExists' = TRUE
    /\ pc' = "write"
    /\ UNCHANGED <<bibExists, bibEntries, outFile, db, i, pubs, raised, printed, callVars>>

\* OUT.write_text(json.dumps(pubs, ...))
Write ==
    /\ pc = "write"
    /\ outFile' = FileOf(pubs)
    /\ pc' = "print"
    /\ UNCHANGED <<dataDirExists, bibExists, bibEntries, db, i, pubs, raised, printed, callVars>>

\* print(f"Wrote {OUT} ({len(pubs)} items)")
PrintCount ==
    /\ pc = "print"
    /\ printed' = Len(pubs)
    /\ pc' = "done"
    /\ UNCHANGED <<dataDirExists, bibExists, bibEntries, outFile, db, i, pubs, raised, callVars>>

\* the positions of main at which a step is enabled
MainSteps == {"start", "load", "loop", "mkdir", "write", "print"}

Next == CheckExists \/ Load \/ Transform \/ Sort \/ Mkdir \/ Write \/ PrintCount

Spec == Init /\ [][Next]_vars

(***************************************************************************)
(* Properties                                                              *)
(***************************************************************************)
Min(S) == CHOOSE k \in S : \A j \in S : k <= j
Count(list, x) == Cardinality({k \in DOMAIN list : list[k] = x})
IsPermutation(a, b) ==
    /\ Len(a) = Len(b)
    /\ \A x \in Range(a) \cup Range(b) : Count(a, x) = Count(b, x)

\* the start positions of four consecutive decimal digits
FourDigitRuns(s) == {k \in 1..(Len(s) - 3) : \A j \in k..(k + 3) : IsDigit(s[j])}

\* C1: to_int_year returns 0 when the cleaned input is empty; otherwise the
\* first run of four consecutive decimal digits found anywhere in the cleaned
\* string, as an integer: "2025", "{2025}" and "2025a" give 2025, "" and
\* "n.d." give 0.
C1_ToIntYearFirstFourDigits ==
    pc = "returned_to_int_year" =>
        LET s    == clean_text(arg)
            runs == FourDigitRuns(s)
        IN  /\ s = <<>> => res = 0
            /\ runs # {} => res = DigitsToInt(SubSeq(s, Min(runs), Min(runs) + 3))
            /\ arg \in {<<"2","0","2","5">>, <<"{","2","0","2","5","}">>,
                        <<"2","0","2","5","a">>} => res = 2025
            /\ arg \in {<<>>, <<"n",".","d",".">>} => res = 0

\* C2: make_arxiv_link takes the first that applies of: (1) a non-empty
\* cleaned "arxiv" field gives the link of that value, whatever eprint and
\* prefix say; (2) a non-empty eprint with an archivePrefix or archiveprefix
\* field whose cleaned lower-cased value is "arxiv" gives the link of eprint;
\* (3) a non-empty eprint with a note containing "arxiv" in any case gives the
\* link of eprint; (4) otherwise the result is empty.
C2_ArxivPriority ==
    pc = "returned_make_arxiv_link" =>
        LET arxiv  == clean_text(Get(arg, "arxiv", <<>>))
            eprint == clean_text(Get(arg, "eprint", <<>>))
            prefix == \E f \in {"archivePrefix", "archiveprefix"} \cap DOMAIN arg :
                          lower(clean_text(arg[f])) = ArxivWord
            note   == lower(clean_text(Get(arg, "note", <<>>)))
        IN  res = IF arxiv # <<>> THEN ArxivAbs \o arxiv
                  ELSE IF eprint # <<>> /\ prefix THEN ArxivAbs \o eprint
                  ELSE IF eprint # <<>> /\ Contains(note, ArxivWord) THEN ArxivAbs \o eprint
                  ELSE <<>>

\* the characters of the model, and the values that are a str
Chars ==
    Range(UpperSeq) \cup Range(LowerSeq) \cup Range(DigitSeq) \cup Range(PunctSeq)
        \cup {"\t", "\n", "\r", NBSP}
IsPyStr(v) == v \in Seq(Chars)

\* an author-link table keyed by "Kim, Jaehyun" (here "K, J"), and the
\* AuthorRecord of a name under it
AuthorLinkTable == (<<"K", ",", " ", "J">> :> <<"u">>)
AuthorRecord(name) ==
    [name |-> name,
     url  |-> IF name \in DOMAIN AuthorLinkTable THEN AuthorLinkTable[name] ELSE <<>>]

\* C3: in every record the authors field is the sequence of AuthorRecord
\* objects {name, url}, one per parsed author name and in their order, url
\* being the table's URL of the name, empty when the table has none.
C3_AuthorsAreAuthorRecords ==
    pc = "loop" =>
        \A k \in 1..Len(pubs) :
            LET names == split_authors(Get(db[k], "author", <<>>))
            IN  /\ Len(pubs[k].authors) = Len(names)
                /\ \A j \in 1..Len(names) :
                       /\ ~IsPyStr(pubs[k].authors[j])
                       /\ pubs[k].authors[j] = AuthorRecord(names[j])

\* C4: for a list of author names joined by "and", split_authors returns the
\* same names in the same order whatever whitespace surrounds each "and" (the
\* result for the list joined by single spaces), never re-sorted; an empty
\* author field gives the empty sequence.
C4_SplitAuthorsWhitespaceInvariant ==
    pc = "returned_split_authors_joined" =>
        /\ res = split_authors(JoinAnd(arg.names, [k \in DOMAIN arg.gaps |-> OneSpace]))
        /\ res = [k \in 1..Len(arg.names) |-> clean_text(arg.names[k])]
        /\ JoinAnd(arg.names, arg.gaps) = <<>> => res = <<>>

\* three names out of alphabetical order, a newline before the first "and",
\* a non-breaking space and a tab after the second
C4_Witness ==
    /\ pc = "returned_split_authors_joined"
    /\ arg.names = <<<<"a", "n", "d", "y">>, <<"K", ",", " ", "J">>, <<"{", "P", "}">>>>
    /\ arg.gaps = <<[before |-> <<"\n">>, after |-> <<" ">>],
                    [before |-> <<" ">>, after |-> <<NBSP, "\t">>]>>
    /\ res = <<<<"a", "n", "d", "y">>, <<"K", ",", " ", "J">>, <<"P">>>>

\* a is not after b in descending (year, title) order
KeyGeq(a, b) == a.year > b.year \/ (a.year = b.year /\ ~StrLess(a.title, b.title))
Descending(list) == \A k \in 1..(Len(list) - 1) : KeyGeq(list[k], list[k + 1])

\* C5: from the sort step on, pubs, and the output written from it, is in
\* descending order of (year, title): of two adjacent records a, b either
\* a.year > b.year, or the years are equal and a.title >= b.title.
C5_OutputDescending ==
    /\ pc \in {"mkdir", "write", "print", "done"} => Descending(pubs)
    /\ pc \in {"print", "done"} => Descending(outFile.content)

\* entries of years 2024, 2025 and none are written as 2025, 2024, 0
C5_Witness ==
    /\ pc = "done"
    /\ Len(bibEntries) = 3
    /\ [k \in 1..3 |-> EntryRecord(bibEntries[k]).year] = <<2024, 2025, 0>>
    /\ [k \in 1..3 |-> outFile.content[k].year] = <<2025, 2024, 0>>

\* C6: in the output every record of year 0 comes after every record whose
\* year is not 0.
C6_UnknownYearLast ==
    pc \in {"print", "done"} =>
        \A a, b \in 1..Len(outFile.content) :
            (outFile.content[a].year = 0 /\ outFile.content[b].year # 0) => b < a

\* C7: when the bibliography exists the run does not fail, and what it writes
\* holds exactly one record per entry: as many records as entries, a
\* permutation of the entries' records, year 0 for an entry without a year
\* and no authors for an entry without an author.
C7_OneRecordPerEntry ==
    /\ bibExists => (pc \in MainSteps \cup {"done"} /\ raised = NoError)
    /\ pc \in {"print", "done"} =>
        /\ outFile.exists
        /\ Len(outFile.content) = Len(bibEntries)
        /\ IsPermutation(outFile.content,
                         [k \in 1..Len(bibEntries) |-> EntryRecord(bibEntries[k])])
        /\ \A k \in 1..Len(bibEntries) :
               \E r \in 1..Len(outFile.content) :
                   /\ outFile.content[r].id = Get(bibEntries[k], "ID", <<>>)
                   /\ "year" \notin DOMAIN bibEntries[k] => outFile.content[r].year = 0
                   /\ "author" \notin DOMAIN bibEntries[k] => outFile.content[r].authors = <<>>

\* a bibliography of an entry without a year and an entry without an author
\* is written as two records
C7_Witness ==
    /\ pc = "done"
    /\ Len(bibEntries) = 2
    /\ "year" \notin DOMAIN bibEntries[1] /\ "author" \in DOMAIN bibEntries[1]
    /\ "author" \notin DOMAIN bibEntries[2] /\ "year" \in DOMAIN bibEntries[2]
    /\ Len(outFile.content) = 2
    /\ \E r \in 1..2 : outFile.content[r].year = 0 /\ outFile.content[r].authors # <<>>
    /\ \E r \in 1..2 : outFile.content[r].authors = <<>> /\ outFile.content[r].year # 0
    /\ printed = 2

\* C8: without the bibliography every step of main ends in the failure,
\* FileNotFoundError, and leaves the output file and its directory as they
\* were; nothing follows the failure; and the output is written only in a run
\* that has not failed, once every entry is transformed and pubs is sorted.
C8_NoOutputWithoutInput ==
    [][/\ pc # "failed"
       /\ ~bibExists =>
            /\ pc' = "failed" /\ raised' = "FileNotFoundError"
            /\ outFile' = outFile /\ dataDirExists' = dataDirExists
       /\ (outFile' # outFile \/ dataDirExists' # dataDirExists \/ pc = "write") =>
            /\ bibExists /\ raised = NoError
            /\ db = bibEntries /\ i > Len(db) /\ Len(pubs) = Len(db)
            /\ Descending(pubs)]_vars

\* the run failed and there is still neither output directory nor file
C8_Witness ==
    /\ pc = "failed" /\ raised = "FileNotFoundError"
    /\ ~bibExists /\ ~dataDirExists /\ ~outFile.exists

VenueFields == <<"journal", "booktitle", "publisher", "institution">>

\* C9: pick_venue returns the cleaned value of the first of journal,
\* booktitle, publisher, institution that is non-empty after cleaning, and
\* the empty string only when none is: a field of whitespace or braces only
\* does not hide a later field that has a value.
C9_VenueFirstNonEmpty ==
    pc = "returned_pick_venue" =>
        LET cleaned  == [k \in 1..4 |-> clean_text(GetOrNone(arg, VenueFields[k]))]
            nonEmpty == {k \in 1..4 : cleaned[k] # <<>>}
        IN  res = IF nonEmpty = {} THEN <<>> ELSE cleaned[Min(nonEmpty)]

\* C10: every name split_authors returns is non-empty, has no whitespace at
\* either end, has no trailing comma, and holds no separator (whitespace,
\* "and", whitespace).
C10_NamesAreValid ==
    pc = "returned_split_authors" =>
        \A k \in 1..Len(res) :
            LET name == res[k]
            IN  /\ name # <<>>
                /\ ~IsSpace(name[1]) /\ ~IsSpace(name[Len(name)])
                /\ name[Len(name)] # ","
                /\ \A j \in 1..Len(name) : SepMatchEnd(name, j) = 0

=============================================================================
